---- MODULE Spec2Model ----
(***************************************************************************)
(* A state-machine model of zipwalk (src/zipwalk.go, lines 1-198).         *)
(*                                                                         *)
(* Walk drives filepath.Walk over the real file tree; for every real file  *)
(* whose extension is ".zip" it calls walkFuncRecursive, which visits the  *)
(* archive node, decodes it and loops over its entries, recursing into     *)
(* entries that are archives themselves.  The recursion is modelled with   *)
(* an explicit call stack: one frame per directory being listed by         *)
(* filepath.Walk and one frame per archive being iterated by               *)
(* walkFuncRecursive.                                                      *)
(*                                                                         *)
(* Stat resolves one path: it opens the real archive that the part before  *)
(* the first ".zip/" names and calls statRecursive, which looks the next   *)
(* segment up among the entries and calls itself on an entry that is an    *)
(* archive.  Open makes the same descent and returns a handle; its source  *)
(* is not among the files modelled, so Open and Close follow the           *)
(* specification's description of them (section 4.2).                      *)
(*                                                                         *)
(* A behaviour is one call: of Walk, of Stat, or of Open followed by Close *)
(* on the handle.                                                          *)
(*                                                                         *)
(* Strings that the code inspects (names, paths, extensions) are sequences *)
(* of one-character strings, so that Ext, ToLower, Join and Clean are      *)
(* computed and not assumed.  An error value is the sequence of message    *)
(* fragments of its Error() text, outermost wrapper first; the nil error   *)
(* is the empty sequence.                                                  *)
(***************************************************************************)
EXTENDS Integers, Sequences, FiniteSets, TLC

\* Most faults (environment failures, closers that fail) plus non-nil visitor
\* returns in one run.
MaxEvents == 3

(***************************************************************************)
(* Strings                                                                 *)
(***************************************************************************)
\* F applied to the value of v, with v computed once
Once(v, F(_)) == CHOOSE y \in { F(x) : x \in {v} } : TRUE

Slash == "/"
Dot == "."

\* strings.ToLower, on the alphabet the file names of the tree use
LowerChar(c) ==
  CASE c = "Z" -> "z"
    [] c = "I" -> "i"
    [] c = "P" -> "p"
    [] OTHER -> c

ToLower(s) == Once(s, LAMBDA t : [i \in 1..Len(t) |-> LowerChar(t[i])])

RECURSIVE ExtFrom(_, _)
ExtFrom(path, i) ==
  IF i = 0 THEN <<>>
  ELSE IF path[i] = Slash THEN <<>>
  ELSE IF path[i] = Dot THEN SubSeq(path, i, Len(path))
  ELSE ExtFrom(path, i - 1)

\* filepath.Ext: the suffix beginning at the final dot of the final element
Ext(path) == Once(path, LAMBDA p : ExtFrom(p, Len(p)))

DotZip == <<".", "z", "i", "p">>

\* strings.ToLower(filepath.Ext(p)) == ".zip"
IsZipNameCaseSensitive(p) == Ext(p) = DotZip

IsZipName(p) == ToLower(Ext(p)) = DotZip

\* the elements of a path between separators (empty elements included)
RECURSIVE SplitFrom(_, _, _)
SplitFrom(p, i, cur) ==
  IF i > Len(p) THEN <<cur>>
  ELSE IF p[i] = Slash THEN <<cur>> \o SplitFrom(p, i + 1, <<>>)
  ELSE SplitFrom(p, i + 1, Append(cur, p[i]))

Split(p) == Once(p, LAMBDA q : SplitFrom(q, 1, <<>>))

DotDot == <<".", ".">>

\* Clean's treatment of the elements, left to right: "" and "." are dropped,
\* ".." removes the element before it, or is dropped at the root of a rooted
\* path, or is kept at the start of a relative one
RECURSIVE CleanSegs(_, _, _, _)
CleanSegs(segs, i, out, rooted) ==
  IF i > Len(segs) THEN out
  ELSE LET s == segs[i] IN
    IF s = <<>> \/ s = <<Dot>> THEN CleanSegs(segs, i + 1, out, rooted)
    ELSE IF s = DotDot THEN
      IF Len(out) > 0 /\ out[Len(out)] # DotDot
        THEN CleanSegs(segs, i + 1, SubSeq(out, 1, Len(out) - 1), rooted)
      ELSE IF rooted THEN CleanSegs(segs, i + 1, out, rooted)
      ELSE CleanSegs(segs, i + 1, Append(out, s), rooted)
    ELSE CleanSegs(segs, i + 1, Append(out, s), rooted)

RECURSIVE JoinSegs(_, _)
JoinSegs(segs, i) ==
  IF i > Len(segs) THEN <<>>
  ELSE IF i = Len(segs) THEN segs[i]
  ELSE segs[i] \o <<Slash>> \o JoinSegs(segs, i + 1)

\* filepath.Clean
Clean(p) ==
  Once(p, LAMBDA q :
    LET rooted == Len(q) > 0 /\ q[1] = Slash
        body == Once(Split(q), LAMBDA segs :
                  Once(CleanSegs(segs, 1, <<>>, rooted), LAMBDA kept : JoinSegs(kept, 1)))
        full == IF rooted THEN <<Slash>> \o body ELSE body
    IN IF full = <<>> THEN <<Dot>> ELSE full)

\* filepath.Join of two elements: empty elements are ignored, the rest is
\* joined by the separator and cleaned
Join(a, b) ==
  IF a = <<>> /\ b = <<>> THEN <<>>
  ELSE IF a = <<>> THEN Clean(b)
  ELSE IF b = <<>> THEN Clean(a)
  ELSE Clean(a \o <<Slash>> \o b)

RECURSIVE StripSlashes(_)
StripSlashes(p) ==
  IF Len(p) > 0 /\ p[Len(p)] = Slash
    THEN StripSlashes(SubSeq(p, 1, Len(p) - 1))
    ELSE p

RECURSIVE LastElemFrom(_, _)
LastElemFrom(p, i) ==
  IF i = 0 THEN p
  ELSE IF p[i] = Slash THEN SubSeq(p, i + 1, Len(p))
  ELSE LastElemFrom(p, i - 1)

\* path.Base, as archive/zip's headerFileInfo.Name applies it to an entry name
Base(name) ==
  IF name = <<>> THEN <<Dot>>
  ELSE LET s == StripSlashes(name) IN
    IF s = <<>> THEN <<Slash>> ELSE LastElemFrom(s, Len(s))

HasTrailingSlash(name) == Len(name) > 0 /\ name[Len(name)] = Slash

(***************************************************************************)
(* Errors                                                                  *)
(***************************************************************************)
Nil == <<>>

\* filepath.SkipDir
SkipDir == <<"skip this directory">>

SkipZip == <<"SkipZip">>

\* an error of the visitor's own
UserErr == <<"visitor error">>

\* what the visitor may return
VisitorReturns == {Nil, SkipDir, SkipZip, UserErr}

ErrLstat == <<"lstat: no such file or directory">>
ErrOpenFile == <<"open: permission denied">>
ErrReadDir == <<"readdirent: input/output error">>
\* archive/zip: ErrFormat, ErrAlgorithm, ErrChecksum and a directory error
\* that is not ErrFormat; compress/flate's CorruptInputError; io.ErrUnexpectedEOF
ErrFormat == <<"zip: not a valid zip file">>
ErrAlgorithm == <<"zip: unsupported compression algorithm">>
ErrChecksum == <<"zip: checksum error">>
ErrDirectory == <<"archive/zip: TOC declares impossible 65535 files in 22 byte zip">>
ErrCorruptInput == <<"flate: corrupt input before offset 5">>
ErrUnexpectedEOF == <<"unexpected EOF">>
\* os.ErrNotExist, and the errors of the system calls behind os.Stat and
\* os.Open: ENOENT, ENOTDIR, EISDIR
ErrNotExist == <<"file does not exist">>
ErrNoEnt == <<"no such file or directory">>
ErrNotDir == <<"not a directory">>
ErrIsDir == <<"is a directory">>

\* the err argument the visitor gets for a real node met with fault k
ErrArg(k) ==
  CASE k = "lstat" -> ErrLstat
    [] k = "open" -> ErrOpenFile
    [] k = "readdir" -> ErrReadDir
    [] OTHER -> Nil

\* what the visitor may return for a real node met with fault k: a value of
\* its own, or the err it was given
ReturnsFor(k) == VisitorReturns \cup {ErrArg(k)}

\* os.IsNotExist(e)
IsNotExist(e) == e \in {ErrNotExist, ErrNoEnt}

\* <<needle, message>>: the message fragments that hold each needle the code
\* searches for
SubstringOf ==
  { <<"zip: not a valid zip file", "zip: not a valid zip file">>,
    <<"zip: unsupported", "zip: unsupported compression algorithm">>,
    <<"flate: corrupt input before offset", "flate: corrupt input before offset 5">>,
    <<"EOF", "unexpected EOF">> }

\* strings.Contains(err.Error(), needle)
StringsContains(e, needle) ==
  \E i \in 1..Len(e) : <<needle, e[i]>> \in SubstringOf

\* fmt.Errorf("<tag> ... %v", err): a new error whose text embeds err's text
Errorf(tag, e) == <<tag>> \o e

(***************************************************************************)
(* The tree that is walked.  A node is a real directory, a real file or an *)
(* archive entry; the children of a directory are its names in lexical     *)
(* order (filepath.Walk sorts them), the children of an archive are its    *)
(* entries in stored order.  mtime of an entry is the per-entry time       *)
(* stored in the archive.                                                  *)
(*                                                                         *)
(*   root/a.txt                                                            *)
(*   root/a.zip      : b.txt, dir1.ZIP, in.zip, a.txt     (stored order)   *)
(*        dir1.ZIP   : dir1/, dir1/dir1.txt                                *)
(*        in.zip     : x.txt, deep.zip                                     *)
(*        deep.zip   : y.txt                                               *)
(*   root/d.zip/e.txt                          (d.zip is a real directory) *)
(*   root/z.txt                                                            *)
(*                                                                         *)
(* Beside it stands a second tree, whose archive stores names with         *)
(* parent-directory segments:                                              *)
(*                                                                         *)
(*   box/p.zip       : ok.txt, ../up.txt, ../../out.txt, q.zip             *)
(*        q.zip      : ../../../far.txt                                    *)
(***************************************************************************)
Leaf(name, kind, size, mtime) ==
  [name |-> name, kind |-> kind, size |-> size, mtime |-> mtime, children |-> <<>>]

E_dir1 == Leaf(<<"d","i","r","1","/">>, "entry", 0, 11)

E_dir1_txt == Leaf(<<"d","i","r","1","/","d","i","r","1",".","t","x","t">>, "entry", 8, 12)

E_b_txt == Leaf(<<"b",".","t","x","t">>, "entry", 5, 13)

E_a_txt == Leaf(<<"a",".","t","x","t">>, "entry", 8, 14)

E_y_txt == Leaf(<<"y",".","t","x","t">>, "entry", 2, 16)

E_x_txt == Leaf(<<"x",".","t","x","t">>, "entry", 4, 17)

E_dir1_ZIP ==
  [name |-> <<"d","i","r","1",".","Z","I","P">>, kind |-> "entry", size |-> 300,
   mtime |-> 15, children |-> <<E_dir1, E_dir1_txt>>]

E_deep_zip ==
  [name |-> <<"d","e","e","p",".","z","i","p">>, kind |-> "entry", size |-> 120,
   mtime |-> 18, children |-> <<E_y_txt>>]

E_in_zip ==
  [name |-> <<"i","n",".","z","i","p">>, kind |-> "entry", size |-> 400,
   mtime |-> 19, children |-> <<E_x_txt, E_deep_zip>>]

F_a_txt == Leaf(<<"a",".","t","x","t">>, "file", 8, 101)

F_a_zip ==
  [name |-> <<"a",".","z","i","p">>, kind |-> "file", size |-> 900,
   mtime |-> 102, children |-> <<E_b_txt, E_dir1_ZIP, E_in_zip, E_a_txt>>]

F_e_txt == Leaf(<<"e",".","t","x","t">>, "file", 3, 104)

D_d_zip ==
  [name |-> <<"d",".","z","i","p">>, kind |-> "dir", size |-> 4096, mtime |-> 103,
   children |-> <<F_e_txt>>]

F_z_txt == Leaf(<<"z",".","t","x","t">>, "file", 6, 105)

Root ==
  [name |-> <<"r","o","o","t">>, kind |-> "dir", size |-> 4096, mtime |-> 100,
   children |-> <<F_a_txt, F_a_zip, D_d_zip, F_z_txt>>]

\* the root argument of Walk
RootPath == <<"r","o","o","t">>

E_ok_txt == Leaf(<<"o","k",".","t","x","t">>, "entry", 2, 21)

E_up_txt == Leaf(<<".",".","/","u","p",".","t","x","t">>, "entry", 3, 22)

E_out_txt == Leaf(<<".",".","/",".",".","/","o","u","t",".","t","x","t">>, "entry", 4, 23)

E_far_txt ==
  Leaf(<<".",".","/",".",".","/",".",".","/","f","a","r",".","t","x","t">>, "entry", 5, 24)

E_q_zip ==
  [name |-> <<"q",".","z","i","p">>, kind |-> "entry", size |-> 150,
   mtime |-> 25, children |-> <<E_far_txt>>]

F_p_zip ==
  [name |-> <<"p",".","z","i","p">>, kind |-> "file", size |-> 500,
   mtime |-> 201, children |-> <<E_ok_txt, E_up_txt, E_out_txt, E_q_zip>>]

Box ==
  [name |-> <<"b","o","x">>, kind |-> "dir", size |-> 4096, mtime |-> 200,
   children |-> <<F_p_zip>>]

\* the node of Box
BoxId == <<0>>

\* A node is identified by its position: the child indices from the root.
RECURSIVE NodeAt(_)
NodeAt(id) ==
  IF id = <<>> THEN Root
  ELSE IF id = BoxId THEN Box
  ELSE NodeAt(SubSeq(id, 1, Len(id) - 1)).children[id[Len(id)]]

RECURSIVE IdsUnder(_, _)
IdsUnder(n, id) ==
  {id} \cup UNION { IdsUnder(n.children[i], Append(id, i)) : i \in 1..Len(n.children) }

NodeIds == IdsUnder(Root, <<>>)

BoxIds == IdsUnder(Box, BoxId)

AllIds == NodeIds \cup BoxIds

Parent(id) == SubSeq(id, 1, Len(id) - 1)

IsPrefix(a, b) == Len(a) <= Len(b) /\ SubSeq(b, 1, Len(a)) = a

IsStrictPrefix(a, b) == Len(a) < Len(b) /\ SubSeq(b, 1, Len(a)) = a

IsReal(id) == NodeAt(id).kind \in {"dir", "file"}

IsEntry(id) == NodeAt(id).kind = "entry"

(***************************************************************************)
(* Faults: what the environment answers when the code reaches a node.      *)
(*   lstat, readdir, open : os.Lstat, reading a directory, os.Open fail    *)
(*   notzip, badzip       : zip.NewReader fails, with ErrFormat or with    *)
(*                          another error                                  *)
(*   unsupported, openerr : File.Open fails, with ErrAlgorithm or with     *)
(*                          ErrFormat                                      *)
(*   flate, eof, checksum : ioutil.ReadAll of the entry fails (encrypted   *)
(*                          or corrupt data, truncated data, bad CRC)      *)
(***************************************************************************)
DecodeFaults == {"notzip", "badzip"}

OpenFaults == {"unsupported", "openerr"}

ReadFaults == {"flate", "eof", "checksum"}

FaultKinds(id) ==
  LET n == NodeAt(id) IN
  IF n.kind = "dir" THEN {"ok", "lstat", "readdir"}
  ELSE IF n.kind = "file" THEN
    {"ok", "lstat", "open"} \cup (IF IsZipName(n.name) THEN DecodeFaults ELSE {})
  ELSE IF HasTrailingSlash(n.name) THEN {"ok", "openerr"}
  ELSE {"ok"} \cup OpenFaults \cup ReadFaults
           \cup (IF IsZipName(n.name) THEN DecodeFaults ELSE {})

OpenError(k) ==
  CASE k = "unsupported" -> ErrAlgorithm
    [] k = "openerr" -> ErrFormat
    [] OTHER -> Nil

ReadError(k) ==
  CASE k = "flate" -> ErrCorruptInput
    [] k = "eof" -> ErrUnexpectedEOF
    [] k = "checksum" -> ErrChecksum
    [] OTHER -> Nil

DecodeError(k) ==
  CASE k = "notzip" -> ErrFormat
    [] k = "badzip" -> ErrDirectory
    [] OTHER -> Nil

(***************************************************************************)
(* os.FileInfo values and streams                                          *)
(***************************************************************************)
\* the nil os.FileInfo filepath.Walk passes when Lstat failed
NilInfo == [valid |-> FALSE, name |-> <<>>, size |-> 0, isDir |-> FALSE, mtime |-> 0]

\* os.Lstat of a real node
Lstat(id) ==
  LET n == NodeAt(id) IN
  [valid |-> TRUE, name |-> n.name, size |-> n.size, isDir |-> n.kind = "dir",
   mtime |-> n.mtime]

\* zip.File.FileInfo(): the base name, the uncompressed size, the directory
\* bit of a name ending in "/", and the time stored with the entry
FileInfo(e) ==
  [valid |-> TRUE, name |-> Base(e.name), size |-> e.size,
   isDir |-> HasTrailingSlash(e.name), mtime |-> e.mtime]

NewZipFileInfoKeepEntryTime(lm, info) == info

\* NewZipFileInfo: ModTime() is masked by lm, the rest is info's
NewZipFileInfo(lm, info) == [info EXCEPT !.mtime = lm]

\* a stream is named by the node whose bytes it yields, read from offset pos
NoStream == [open |-> FALSE, of |-> <<>>, pos |-> 0]

StreamOf(id) == [open |-> TRUE, of |-> id, pos |-> 0]

\* zr.File of a decoded archive: the entries in stored order
ZipFilesReversed(content) ==
  LET c == NodeAt(content.of).children IN
  [i \in 1..Len(c) |-> Append(content.of, Len(c) + 1 - i)]

ZipFiles(content) ==
  [i \in 1..Len(NodeAt(content.of).children) |-> Append(content.of, i)]

(***************************************************************************)
(* State                                                                   *)
(***************************************************************************)
VARIABLES
  pc,         \* where the call is: "start", "run", "done" for Walk; "stat",
              \* "statRecursive", "statReturn", "statDone" for Stat; "open",
              \* "openDescend", "openFailed", "opened", "closed",
              \* "closedTwice" for Open and Close
  stack,      \* the active frames, innermost last
  log,        \* the visitor's invocations so far, with what it returned
  fault,      \* what the environment answered at each node reached so far
  events,     \* faults met plus non-nil visitor returns so far
  returning,  \* a call has just returned to the innermost frame
  retErr,     \* the error it returned
  result,     \* what Walk returned, once pc = "done"
  walkRoot,   \* the root argument of Walk: the node it names
  handles,    \* the handles that are open: files, archive readers, entry streams
  decoded,    \* the attempts to decode an archive so far, in order
  stat,       \* the call of Stat: its argument, where it is, what it returned
  opn         \* the call of Open and the handle it returned

vars ==
  <<pc, stack, log, fault, events, returning, retErr, result, walkRoot, handles,
    decoded, stat, opn>>

\* what Walk never touches
statVars == <<stat, opn>>

\* what Stat and Open never touch
walkVars == <<stack, log, returning, retErr, result, walkRoot>>

\* one invocation walkFn(path, info, reader, err) for node id, returning ret
Visit(id, path, info, stream, err, ret) ==
  [id |-> id, path |-> path, info |-> info, stream |-> stream, err |-> err,
   ret |-> ret]

\* How a call or a loop body ends: it returns err, it goes on with the next
\* child, or it starts iterating a directory or an archive (a new frame).
\* opened: the handles the call has opened and closes when it returns;
\* dec: the archives it has tried to decode, each after so many of its visits
Return(l, e) ==
  [log |-> l, next |-> "return", push |-> <<>>, err |-> e, opened |-> {},
   dec |-> <<>>]

Continue(l) ==
  [log |-> l, next |-> "continue", push |-> <<>>, err |-> Nil, opened |-> {},
   dec |-> <<>>]

Push(l, fr) ==
  [log |-> l, next |-> "push", push |-> <<fr>>, err |-> Nil, opened |-> {},
   dec |-> <<>>]

\* os.Open(filePath) of the real file id
FileHandle(id) == [kind |-> "file", node |-> id]

\* f.Open() of entry id: the stream that decompresses it
EntryHandle(id) == [kind |-> "entry", node |-> id]

\* zip.OpenReader of the real archive id
ReaderHandle(id) == [kind |-> "reader", node |-> id]

\* outcome o of a call that opened h before the rest of it ran
Opened(h, o) == [o EXCEPT !.opened = @ \cup {h}]

\* outcome o of a call that applied zip.NewReader to id after the visits l
Decoded(id, l, o) ==
  [o EXCEPT !.dec = <<[id |-> id, after |-> Len(l)]>> \o @]

\* filepath.walk listing directory id
DirFrame(id, path, info) ==
  [kind |-> "dir", node |-> id, path |-> path, info |-> info,
   content |-> NoStream, idx |-> 1, held |-> {}]

\* walkFuncRecursive(filePath, info, content, ...) ranging over zr.File
ZipFrame(filePath, info, content) ==
  [kind |-> "zip", node |-> content.of, path |-> filePath, info |-> info,
   content |-> content, idx |-> 1, held |-> {}]

(***************************************************************************)
(* walkFuncRecursive, up to its loop                                       *)
(***************************************************************************)
SkipsArchiveNever(r) == FALSE

\* err == SkipZip
SkipsArchive(r) == r = SkipZip

DecodeToleratedNever(derr) == FALSE

\* strings.Contains(err.Error(), "zip: not a valid zip file")
DecodeTolerated(derr) == StringsContains(derr, "zip: not a valid zip file")

WalkFuncRecursiveDecodeFirst(id, filePath, info, content, err, k, r) ==
  LET v == Visit(id, filePath, info, content, Nil, r)
      derr == DecodeError(k)
  IN Decoded(id, <<>>,
       IF derr # Nil
         THEN Return(<<>>, Errorf("walkFuncRecursive error reading file", derr))
       ELSE IF SkipsArchive(r) THEN Return(<<v>>, Nil)
       ELSE IF r # Nil
         THEN Return(<<v>>, Errorf("walkFuncRecursive received error from walkFn for file", r))
       ELSE Push(<<v>>, ZipFrame(filePath, info, content)))

\* id is the node the call is about; k is the fault of that node
WalkFuncRecursive(id, filePath, info, content, err, k, r) ==
  IF err # Nil
    THEN Return(<<>>, Errorf("walkFuncRecursive received error when called for file", err))
  ELSE LET v == Visit(id, filePath, info, content, Nil, r) IN
    IF SkipsArchive(r) THEN Return(<<v>>, Nil)
    ELSE IF r # Nil
      THEN Return(<<v>>, Errorf("walkFuncRecursive received error from walkFn for file", r))
    ELSE LET derr == DecodeError(k) IN
      Decoded(id, <<v>>,
        IF derr # Nil THEN
          IF DecodeTolerated(derr) THEN Return(<<v>>, Nil)
          ELSE Return(<<v>>, Errorf("walkFuncRecursive error reading file", derr))
        ELSE Push(<<v>>, ZipFrame(filePath, info, content)))

(***************************************************************************)
(* Walk's callback and filepath.Walk                                       *)
(***************************************************************************)
WalkCallbackOpenUnchecked(id, filePath, info, err, k, r) ==
  IF err # Nil \/ info.isDir
    THEN Return(<<Visit(id, filePath, info, NoStream, err, r)>>, r)
  ELSE Opened(FileHandle(id),
    IF IsZipName(filePath)
      THEN WalkFuncRecursive(id, filePath, info, StreamOf(id), Nil, k, r)
      ELSE Return(<<Visit(id, filePath, info, StreamOf(id), Nil, r)>>, r))

\* the function Walk hands to filepath.Walk
WalkCallback(id, filePath, info, err, k, r) ==
  IF err # Nil \/ info.isDir
    THEN Return(<<Visit(id, filePath, info, NoStream, err, r)>>, r)
  ELSE IF k = "open"
    THEN Return(<<Visit(id, filePath, info, NoStream, ErrOpenFile, r)>>, r)
  ELSE Opened(FileHandle(id),
    IF IsZipName(filePath)
      THEN WalkFuncRecursive(id, filePath, info, StreamOf(id), Nil, k, r)
      ELSE Return(<<Visit(id, filePath, info, StreamOf(id), Nil, r)>>, r))

\* filepath.walk(path, info, walkFn)
FsWalk(id, path, info, k, r) ==
  IF ~info.isDir THEN WalkCallback(id, path, info, Nil, k, r)
  ELSE LET rderr == IF k = "readdir" THEN ErrReadDir ELSE Nil
           o == WalkCallback(id, path, info, rderr, k, r)
       IN IF rderr # Nil \/ o.err # Nil
            THEN Return(o.log, o.err)
            ELSE Push(o.log, DirFrame(id, path, info))

\* the body of filepath.walk's loop over the names of directory frame f
WalkChild(f, c, k, r) ==
  Once(Join(f.path, NodeAt(c).name), LAMBDA filename :
    IF k = "lstat"
      THEN WalkCallback(c, filename, NilInfo, ErrLstat, k, r)
      ELSE Once(Lstat(c), LAMBDA info : FsWalk(c, filename, info, k, r)))

\* whether filepath.walk's loop goes on after child c returned e
DirLoopContinues(c, k, e) ==
  IF k = "lstat" THEN e = Nil \/ e = SkipDir
  ELSE e = Nil \/ (Lstat(c).isDir /\ e = SkipDir)

\* filepath.Walk's result
TopResult(e) == IF e = SkipDir THEN Nil ELSE e

(***************************************************************************)
(* walkFuncRecursive's loop over zr.File                                   *)
(***************************************************************************)
EnclosingContent(f, e) == f.content

\* bytes.NewReader(insideContent): the bytes read from the entry
InsideContent(f, e) == StreamOf(e)

EntryVisitFailedNever(r) == FALSE

EntryVisitFailedUnlessSkipZip(r) == r # Nil /\ ~SkipsArchive(r)

\* err != nil after walkFn returned for an entry
EntryVisitFailed(r) == r # Nil

\* after the nested walkFuncRecursive returned err
ZipLoopOnNested(l, err) ==
  IF err # Nil
    THEN Return(l, Errorf("Received error from walkFuncRecursive", err))
    ELSE Continue(l)

\* the loop body for entry e of archive frame f; k is the fault of e
ZipEntry(f, e, k, r) ==
  Once(NodeAt(e), LAMBDA ent :
  Once(Join(f.path, ent.name), LAMBDA path :
  Once(NewZipFileInfo(f.info.mtime, FileInfo(ent)), LAMBDA info :
  LET operr == OpenError(k)
      rderr == ReadError(k)
  IN
  IF operr # Nil THEN
    IF StringsContains(operr, "zip: unsupported") THEN Return(<<>>, Nil)
    ELSE Return(<<>>, Errorf("Error opening file", operr))
  ELSE Opened(EntryHandle(e),
    IF rderr # Nil THEN
      IF StringsContains(rderr, "flate: corrupt input before offset") THEN Continue(<<>>)
      ELSE IF StringsContains(rderr, "EOF") THEN Continue(<<>>)
      ELSE Return(<<>>, Errorf("Error reading file", rderr))
    ELSE IF IsZipName(ent.name) THEN
      LET o == WalkFuncRecursive(e, path, info, InsideContent(f, e), rderr, k, r) IN
      IF o.next = "push" THEN o
      ELSE [ZipLoopOnNested(o.log, o.err) EXCEPT !.dec = o.dec]
    ELSE
      LET v == Visit(e, path, info, InsideContent(f, e), rderr, r) IN
      IF EntryVisitFailed(r)
        THEN Return(<<v>>, Errorf("Received error from walkFn", r))
        ELSE Continue(<<v>>)))))

\* whether the loop body invokes the visitor for an entry with fault k
EntryReachesVisitor(k) == OpenError(k) = Nil /\ ReadError(k) = Nil

\* zip.NewReader is called, and can fail, only after the visitor returned nil
\* for the archive node
DecodeReached(k, r) == k \in DecodeFaults => r = Nil

(***************************************************************************)
(* Stat and statRecursive                                                  *)
(***************************************************************************)
RECURSIVE IndexFrom(_, _, _)
IndexFrom(s, sub, i) ==
  IF i + Len(sub) > Len(s) THEN -1
  ELSE IF SubSeq(s, i + 1, i + Len(sub)) = sub THEN i
  ELSE IndexFrom(s, sub, i + 1)

\* strings.Index(s, sub): the offset of the first occurrence, from 0, or -1
StringsIndex(s, sub) == Once(s, LAMBDA t : IndexFrom(t, sub, 0))

\* s[lo:hi]
Slice(s, lo, hi) == SubSeq(s, lo + 1, hi)

DotZipSlash == <<".", "z", "i", "p", "/">>

ZipLocCaseSensitive(path) == StringsIndex(path, DotZipSlash)

\* strings.Index(strings.ToLower(filepath.ToSlash(path)), ".zip/")
ZipLoc(path) == StringsIndex(ToLower(path), DotZipSlash)

\* the position of the name seg in real directory id, or 0
ChildNamed(id, seg) ==
  LET c == NodeAt(id).children
      at == { i \in 1..Len(c) : c[i].name = seg }
  IN IF at = {} THEN 0 ELSE CHOOSE i \in at : TRUE

\* the file system follows the elements segs[i..] from real node id
RECURSIVE Resolve(_, _, _)
Resolve(id, segs, i) ==
  IF i > Len(segs) THEN [err |-> Nil, id |-> id]
  ELSE IF NodeAt(id).kind # "dir" THEN [err |-> ErrNotDir, id |-> id]
  ELSE LET j == ChildNamed(id, segs[i]) IN
    IF j = 0 THEN [err |-> ErrNoEnt, id |-> id]
    ELSE Resolve(Append(id, j), segs, i + 1)

\* the real node that a cleaned path names
RealLookup(path) ==
  Once(Split(path), LAMBDA segs :
    IF segs[1] = Root.name THEN Resolve(<<>>, segs, 2)
    ELSE IF segs[1] = Box.name THEN Resolve(BoxId, segs, 2)
    ELSE [err |-> ErrNoEnt, id |-> <<>>])

\* os.Stat(path)
OsStat(path) ==
  LET n == RealLookup(path) IN
  IF n.err # Nil THEN [info |-> NilInfo, err |-> n.err]
  ELSE [info |-> Lstat(n.id), err |-> Nil]

\* zip.OpenReader(name), k being the fault of the file it names; dec: the
\* file whose bytes it tried to decode, if it came to that
OpenReader(name, k) ==
  LET n == RealLookup(name) IN
  IF n.err # Nil THEN [err |-> n.err, id |-> n.id, dec |-> <<>>]
  ELSE IF NodeAt(n.id).kind = "dir"
    THEN [err |-> ErrIsDir, id |-> n.id, dec |-> <<>>]
  ELSE IF k \in {"open", "lstat"}
    THEN [err |-> ErrOpenFile, id |-> n.id, dec |-> <<>>]
  ELSE [err |-> DecodeError(k), id |-> n.id, dec |-> <<n.id>>]

\* How Stat or one call of statRecursive ends: it returns (info, err), or it
\* calls statRecursive on archive zf with the path rest.  tried: the entries
\* whose names it compared; opened, closed: the handles it opened and the
\* ones it closed itself; deferred: the ones it closes as Stat returns;
\* dec: the archives it tried to decode.
StatReturn(info, err, tried) ==
  [next |-> "return", info |-> info, err |-> err, zf |-> <<>>, rest |-> <<>>,
   tried |-> tried, opened |-> {}, closed |-> {}, deferred |-> {}, dec |-> <<>>]

StatDescend(zf, rest, tried) ==
  [next |-> "recurse", info |-> NilInfo, err |-> Nil, zf |-> zf, rest |-> rest,
   tried |-> tried, opened |-> {}, closed |-> {}, deferred |-> {}, dec |-> <<>>]

\* outcome o of a call that first tried to decode the archives ids
StatDecoded(ids, o) == [o EXCEPT !.dec = ids \o @]

\* Stat, up to its call of statRecursive; k is the fault of the file that
\* the part before the first ".zip/" names
StatBegin(arg, k) ==
  Once(Clean(arg), LAMBDA path :
    Once(ZipLoc(path), LAMBDA firstZipLoc :
      IF firstZipLoc = -1
        THEN Once(OsStat(path), LAMBDA st : StatReturn(st.info, st.err, <<>>))
      ELSE LET curLoc == firstZipLoc + 4 IN
        Once(OpenReader(Slice(path, 0, curLoc), k), LAMBDA firstZip :
          StatDecoded(firstZip.dec,
            IF firstZip.err # Nil
              THEN StatReturn(NilInfo, <<"error opening zip file">>, <<>>)
              ELSE [StatDescend(firstZip.id, Slice(path, curLoc + 1, Len(path)), <<>>)
                      EXCEPT !.opened = {ReaderHandle(firstZip.id)},
                             !.deferred = {ReaderHandle(firstZip.id)}]))))

\* the file that the part of arg before the first ".zip/" names, if any
FirstZipOf(arg) ==
  Once(Clean(arg), LAMBDA path :
    Once(ZipLoc(path), LAMBDA firstZipLoc :
      IF firstZipLoc = -1 THEN [err |-> ErrNoEnt, id |-> <<>>]
      ELSE RealLookup(Slice(path, 0, firstZipLoc + 4))))

\* what statRecursive looks for among the entries: the path up to the end of
\* its first ".zip" that a "/" follows, or the whole path
FileToFind(path) ==
  Once(ZipLoc(path), LAMBDA nextZipLoc :
    IF nextZipLoc # -1 THEN Slice(path, 0, nextZipLoc + 4) ELSE path)

NameMatchesFolded(name, fileToFind) == ToLower(name) = ToLower(fileToFind)

\* f.Name == fileToFind
NameMatches(name, fileToFind) == name = fileToFind

FirstMatchAlways(files, fileToFind, i) == IF i > Len(files) THEN 0 ELSE i

\* the position in files of the first entry that fileToFind names, or 0
RECURSIVE FirstMatch(_, _, _)
FirstMatch(files, fileToFind, i) ==
  Once(files, LAMBDA fs : Once(fileToFind, LAMBDA name :
    IF i > Len(fs) THEN 0
    ELSE IF NameMatches(NodeAt(fs[i]).name, name) THEN i
    ELSE FirstMatch(fs, name, i + 1)))

StatDecodeFailedUnlessFormat(derr) == derr # Nil /\ ~DecodeTolerated(derr)

\* err != nil after zip.NewReader
StatDecodeFailed(derr) == derr # Nil

\* f.FileInfo(), as statRecursive returns it for the entry it found in zf
StatFileInfo(zf, e) == FileInfo(e)

\* statRecursive(zf, path); k is the fault of the entry it finds
StatRecursive(zf, path, k) ==
  LET nextZipLoc == ZipLoc(path)
      fileToFind == FileToFind(path)
      files == ZipFiles(StreamOf(zf))
      m == FirstMatch(files, fileToFind, 1)
  IN
  IF m = 0 THEN StatReturn(NilInfo, ErrNotExist, files)
  ELSE LET f == files[m]
           tried == SubSeq(files, 1, m)
           operr == OpenError(k)
           rderr == ReadError(k)
           derr == DecodeError(k)
       IN
    IF nextZipLoc = -1 THEN StatReturn(StatFileInfo(zf, NodeAt(f)), Nil, tried)
    ELSE IF operr # Nil
      THEN StatReturn(NilInfo,
             Errorf("Error opening the file we wanted to find", operr), tried)
    ELSE [(IF rderr # Nil
             THEN StatReturn(NilInfo, Errorf("Error reading zip file", rderr), tried)
           ELSE StatDecoded(<<f>>,
             IF StatDecodeFailed(derr)
               THEN StatReturn(NilInfo, Errorf("Error opening zip file", derr), tried)
               ELSE StatDescend(f, Slice(path, Len(fileToFind) + 1, Len(path)), tried)))
            EXCEPT !.opened = {EntryHandle(f)}, !.closed = {EntryHandle(f)}]

\* the entry of zf that statRecursive(zf, path) opens, if it opens one
StatOpens(zf, path) ==
  LET files == ZipFiles(StreamOf(zf))
      m == FirstMatch(files, FileToFind(path), 1)
  IN IF m = 0 \/ ZipLoc(path) = -1 THEN {} ELSE {files[m]}

(***************************************************************************)
(* Open and the handle it returns.  The descent is Stat's; the handle owns *)
(* what the descent acquired: the reader of the outermost archive, the     *)
(* buffer of every archive entry on the way and the stream of the entry    *)
(* (or the file) that was asked for.                                       *)
(***************************************************************************)
\* the decompressed bytes of archive entry id, held for the archive in it
BufferHandle(id) == [kind |-> "buffer", node |-> id]

\* Open has not been called
NoOpen ==
  [arg |-> <<>>, zf |-> <<>>, rest |-> <<>>, chain |-> <<>>, err |-> Nil,
   closed |-> <<>>, closeErr |-> Nil, failing |-> {}, closes |-> 0]

\* How a step of the descent ends: Open fails with err, it returns the
\* handle, or it goes on in archive zf with the path rest; acquired: what the
\* step has added to the chain
OpenFail(err) ==
  [next |-> "fail", err |-> err, zf |-> <<>>, rest |-> <<>>, acquired |-> <<>>]

OpenHandle(h) ==
  [next |-> "opened", err |-> Nil, zf |-> <<>>, rest |-> <<>>, acquired |-> <<h>>]

OpenInto(zf, rest, h) ==
  [next |-> "descend", err |-> Nil, zf |-> zf, rest |-> rest, acquired |-> <<h>>]

\* the path has an archive marker
CrossesAt(arg) == ZipLoc(Clean(arg)) # -1

\* the real node Open opens first: the file before the first marker, or the
\* file the whole path names
OpenFirst(arg) ==
  IF CrossesAt(arg) THEN FirstZipOf(arg) ELSE RealLookup(Clean(arg))

\* Open, up to its return or its first step into an archive
OpenBegin(arg, k) ==
  LET path == Clean(arg)
      firstZipLoc == ZipLoc(path)
  IN
  IF firstZipLoc = -1 THEN
    LET n == RealLookup(path) IN
    IF n.err # Nil THEN OpenFail(n.err)
    ELSE IF k \in {"open", "lstat"} THEN OpenFail(ErrOpenFile)
    ELSE OpenHandle(FileHandle(n.id))
  ELSE LET curLoc == firstZipLoc + 4
           firstZip == OpenReader(Slice(path, 0, curLoc), k)
       IN IF firstZip.err # Nil
            THEN OpenFail(<<"error opening zip file">>)
            ELSE OpenInto(firstZip.id, Slice(path, curLoc + 1, Len(path)),
                          ReaderHandle(firstZip.id))

\* the entry of zf that the next segment of path names, if any
OpenFinds(zf, path) ==
  LET files == ZipFiles(StreamOf(zf))
      m == FirstMatch(files, FileToFind(path), 1)
  IN IF m = 0 THEN {} ELSE {files[m]}

\* one step of the descent in archive zf; k is the fault of the entry found
OpenDescend(zf, path, k) ==
  LET fileToFind == FileToFind(path)
      files == ZipFiles(StreamOf(zf))
      m == FirstMatch(files, fileToFind, 1)
  IN
  IF m = 0 THEN OpenFail(ErrNotExist)
  ELSE LET f == files[m] IN
    IF OpenError(k) # Nil THEN OpenFail(OpenError(k))
    ELSE IF ZipLoc(path) = -1 THEN OpenHandle(EntryHandle(f))
    ELSE IF ReadError(k) # Nil THEN OpenFail(ReadError(k))
    ELSE IF DecodeError(k) # Nil THEN OpenFail(DecodeError(k))
    ELSE OpenInto(f, Slice(path, Len(fileToFind) + 1, Len(path)), BufferHandle(f))

\* the error of a closer that fails
CloseError(h) == <<"close failed", h.kind, ToString(h.node)>>

RECURSIVE CloseUntilError(_, _, _)
CloseUntilError(chain, failing, i) ==
  IF i = 0 THEN [closed |-> <<>>, err |-> Nil]
  ELSE IF i \in failing THEN [closed |-> <<chain[i]>>, err |-> CloseError(chain[i])]
  ELSE LET rest == CloseUntilError(chain, failing, i - 1) IN
    [closed |-> <<chain[i]>> \o rest.closed, err |-> rest.err]

\* Close: the closers chain[i], chain[i-1], ... are called, whether or not
\* one fails; the error is that of the first one that failed
RECURSIVE CloseFrom(_, _, _)
CloseFrom(chain, failing, i) ==
  IF i = 0 THEN [closed |-> <<>>, err |-> Nil]
  ELSE LET rest == CloseFrom(chain, failing, i - 1) IN
    [closed |-> <<chain[i]>> \o rest.closed,
     err |-> IF i \in failing THEN CloseError(chain[i]) ELSE rest.err]

CloseAll(chain, failing) == CloseFrom(chain, failing, Len(chain))

(***************************************************************************)
(* The paths Stat and Open are called with                                 *)
(***************************************************************************)
StatPaths ==
  LET Sub(dir, name) == dir \o <<Slash>> \o name
      nope_txt == <<"n","o","p","e",".","t","x","t">>
      no_zip == <<"n","o",".","z","i","p">>
      a_zipfoo == <<"a",".","z","i","p","f","o","o">>
      a_ZIP == <<"a",".","Z","I","P">>
      dir1_zip == <<"d","i","r","1",".","z","i","p">>
      dir1 == <<"d","i","r","1">>
      p_a_zip == Sub(RootPath, F_a_zip.name)
      p_in_zip == Sub(p_a_zip, E_in_zip.name)
      p_deep_zip == Sub(p_in_zip, E_deep_zip.name)
      p_dir1_ZIP == Sub(p_a_zip, E_dir1_ZIP.name)
      p_p_zip == Sub(Box.name, F_p_zip.name)
  IN
  { RootPath,
    Sub(RootPath, F_a_txt.name),
    p_a_zip,
    p_a_zip \o <<Slash>>,
    Sub(Sub(RootPath, a_zipfoo), E_x_txt.name),
    Sub(RootPath, nope_txt),
    Sub(Sub(RootPath, F_z_txt.name), E_x_txt.name),
    Sub(Sub(RootPath, no_zip), E_x_txt.name),
    Sub(Sub(RootPath, a_ZIP), E_b_txt.name),
    Sub(Sub(RootPath, D_d_zip.name), F_e_txt.name),
    Sub(RootPath, D_d_zip.name),
    Sub(Sub(RootPath, D_d_zip.name), nope_txt),
    Sub(p_a_zip, E_b_txt.name),
    Sub(p_a_zip, E_a_txt.name),
    Sub(p_a_zip, nope_txt),
    Sub(Sub(p_a_zip, no_zip), E_x_txt.name),
    Sub(Sub(p_a_zip, E_b_txt.name), E_x_txt.name),
    p_in_zip,
    Sub(p_in_zip, E_x_txt.name),
    p_deep_zip,
    Sub(p_deep_zip, E_y_txt.name),
    Sub(p_deep_zip, nope_txt),
    p_dir1_ZIP,
    Sub(p_dir1_ZIP, E_dir1_txt.name),
    Sub(Sub(p_a_zip, dir1_zip), E_dir1_txt.name),
    Sub(p_dir1_ZIP, dir1),
    Sub(p_dir1_ZIP, E_dir1.name),
    Sub(p_p_zip, E_ok_txt.name),
    Sub(p_p_zip, E_up_txt.name),
    Sub(Sub(p_p_zip, E_q_zip.name), E_far_txt.name) }

\* Stat has not been called
NoStat ==
  [arg |-> <<>>, zf |-> <<>>, rest |-> <<>>, tried |-> <<>>, info |-> NilInfo,
   err |-> Nil, deferred |-> {}]

(***************************************************************************)
(* Actions                                                                 *)
(***************************************************************************)
Top == stack[Len(stack)]

Pop == SubSeq(stack, 1, Len(stack) - 1)

Advance == [stack EXCEPT ![Len(stack)].idx = @ + 1]

Cost(k, r) == (IF k = "ok" THEN 0 ELSE 1) + (IF r = Nil THEN 0 ELSE 1)

ReleaseNothing(hs, hd) == hs

\* Close() of the handles hd, as a deferred call or a plain one
Release(hs, hd) == hs \ hd

\* the handles open once a call with outcome out is over: what it opened is
\* closed as it returns, and stays open while the frame it started is active
AfterCall(hs, out) ==
  IF out.next = "push"
    THEN hs \cup out.opened
    ELSE Release(hs \cup out.opened, out.opened)

\* the frames out starts; a frame holds what its caller closes on its return
Pushed(out) == [i \in 1..Len(out.push) |-> [out.push[i] EXCEPT !.held = out.opened]]

\* the decode attempts of a call that began after n visits
Attempts(dec, n) ==
  [i \in 1..Len(dec) |-> [id |-> dec[i].id, at |-> n + dec[i].after]]

\* before Walk(root, walkFn) is called
InitWalk(rootId) ==
  /\ pc = "start"
  /\ stack = <<>>
  /\ log = <<>>
  /\ fault = [id \in AllIds |-> "ok"]
  /\ events = 0
  /\ returning = FALSE
  /\ retErr = Nil
  /\ result = Nil
  /\ walkRoot = rootId
  /\ handles = {}
  /\ decoded = <<>>
  /\ stat = NoStat
  /\ opn = NoOpen

\* before Stat(arg) is called
InitStat ==
  /\ pc = "stat"
  /\ stack = <<>>
  /\ log = <<>>
  /\ fault = [id \in AllIds |-> "ok"]
  /\ events = 0
  /\ returning = FALSE
  /\ retErr = Nil
  /\ result = Nil
  /\ walkRoot = <<>>
  /\ handles = {}
  /\ decoded = <<>>
  /\ \E arg \in StatPaths : stat = [NoStat EXCEPT !.arg = arg]
  /\ opn = NoOpen

\* before Open(arg) is called
InitOpen ==
  /\ pc = "open"
  /\ stack = <<>>
  /\ log = <<>>
  /\ fault = [id \in AllIds |-> "ok"]
  /\ events = 0
  /\ returning = FALSE
  /\ retErr = Nil
  /\ result = Nil
  /\ walkRoot = <<>>
  /\ handles = {}
  /\ decoded = <<>>
  /\ stat = NoStat
  /\ \E arg \in StatPaths : opn = [NoOpen EXCEPT !.arg = arg]

Init == InitWalk(<<>>) \/ InitStat \/ InitOpen

\* Walk(root, walkFn): filepath.Walk stats the root and walks it
Start ==
  /\ pc = "start"
  /\ \E k \in FaultKinds(walkRoot) : \E r \in ReturnsFor(k) :
       /\ events + Cost(k, r) <= MaxEvents
       /\ LET root == NodeAt(walkRoot).name
              out == IF k = "lstat"
                       THEN WalkCallback(walkRoot, root, NilInfo, ErrLstat, k, r)
                       ELSE FsWalk(walkRoot, root, Lstat(walkRoot), k, r)
          IN /\ fault' = [fault EXCEPT ![walkRoot] = k]
             /\ events' = events + Cost(k, r)
             /\ log' = log \o out.log
             /\ handles' = AfterCall(handles, out)
             /\ decoded' = decoded \o Attempts(out.dec, Len(log))
             /\ IF out.next = "push"
                  THEN /\ stack' = Pushed(out)
                       /\ pc' = "run"
                       /\ result' = result
                  ELSE /\ stack' = stack
                       /\ pc' = "done"
                       /\ result' = TopResult(out.err)
  /\ UNCHANGED <<returning, retErr, walkRoot>>
  /\ UNCHANGED statVars

\* filepath.walk's loop takes the next name of the directory
DirStep ==
  /\ pc = "run" /\ ~returning /\ stack # <<>>
  /\ Top.kind = "dir"
  /\ Top.idx <= Len(NodeAt(Top.node).children)
  /\ \E c \in {Append(Top.node, Top.idx)} :
     \E k \in FaultKinds(c) : \E r \in ReturnsFor(k) :
       /\ DecodeReached(k, r)
       /\ events + Cost(k, r) <= MaxEvents
       /\ fault' = [fault EXCEPT ![c] = k]
       /\ events' = events + Cost(k, r)
       /\ \E out \in {WalkChild(Top, c, k, r)} :
          /\ log' = log \o out.log
          /\ decoded' = decoded \o Attempts(out.dec, Len(log))
          /\ IF out.next = "push"
               THEN /\ stack' = stack \o Pushed(out)
                    /\ handles' = AfterCall(handles, out)
                    /\ UNCHANGED <<returning, retErr>>
             ELSE IF DirLoopContinues(c, k, out.err)
               THEN /\ stack' = Advance
                    /\ handles' = AfterCall(handles, out)
                    /\ UNCHANGED <<returning, retErr>>
             ELSE /\ stack' = Pop
                  /\ handles' = Release(AfterCall(handles, out), Top.held)
                  /\ returning' = TRUE /\ retErr' = out.err
  /\ UNCHANGED <<pc, result, walkRoot>>
  /\ UNCHANGED statVars

\* filepath.walk has listed every name of the directory: it returns nil
DirDone ==
  /\ pc = "run" /\ ~returning /\ stack # <<>>
  /\ Top.kind = "dir"
  /\ Top.idx > Len(NodeAt(Top.node).children)
  /\ stack' = Pop /\ returning' = TRUE /\ retErr' = Nil
  /\ handles' = Release(handles, Top.held)
  /\ UNCHANGED <<pc, log, fault, events, result, walkRoot, decoded>>
  /\ UNCHANGED statVars

\* a call made for a child of a directory has returned to filepath.walk's loop
ReturnToDir ==
  /\ pc = "run" /\ returning /\ stack # <<>>
  /\ Top.kind = "dir"
  /\ LET c == Append(Top.node, Top.idx) IN
     IF DirLoopContinues(c, fault[c], retErr)
       THEN /\ stack' = Advance /\ returning' = FALSE /\ retErr' = Nil
            /\ handles' = handles
       ELSE /\ stack' = Pop /\ UNCHANGED <<returning, retErr>>
            /\ handles' = Release(handles, Top.held)
  /\ UNCHANGED <<pc, log, fault, events, result, walkRoot, decoded>>
  /\ UNCHANGED statVars

\* walkFuncRecursive's loop takes the next entry of the archive
ZipStep ==
  /\ pc = "run" /\ ~returning /\ stack # <<>>
  /\ Top.kind = "zip"
  /\ Top.idx <= Len(ZipFiles(Top.content))
  /\ \E e \in {ZipFiles(Top.content)[Top.idx]} :
     \E k \in FaultKinds(e), r \in VisitorReturns :
       /\ EntryReachesVisitor(k) \/ r = Nil
       /\ DecodeReached(k, r)
       /\ events + Cost(k, r) <= MaxEvents
       /\ fault' = [fault EXCEPT ![e] = k]
       /\ events' = events + Cost(k, r)
       /\ \E out \in {ZipEntry(Top, e, k, r)} :
          /\ log' = log \o out.log
          /\ decoded' = decoded \o Attempts(out.dec, Len(log))
          /\ IF out.next = "push"
               THEN /\ stack' = stack \o Pushed(out)
                    /\ handles' = AfterCall(handles, out)
                    /\ UNCHANGED <<returning, retErr>>
             ELSE IF out.next = "continue"
               THEN /\ stack' = Advance
                    /\ handles' = AfterCall(handles, out)
                    /\ UNCHANGED <<returning, retErr>>
             ELSE /\ stack' = Pop
                  /\ handles' = Release(AfterCall(handles, out), Top.held)
                  /\ returning' = TRUE /\ retErr' = out.err
  /\ UNCHANGED <<pc, result, walkRoot>>
  /\ UNCHANGED statVars

\* walkFuncRecursive has ranged over every entry: it returns nil
ZipDone ==
  /\ pc = "run" /\ ~returning /\ stack # <<>>
  /\ Top.kind = "zip"
  /\ Top.idx > Len(ZipFiles(Top.content))
  /\ stack' = Pop /\ returning' = TRUE /\ retErr' = Nil
  /\ handles' = Release(handles, Top.held)
  /\ UNCHANGED <<pc, log, fault, events, result, walkRoot, decoded>>
  /\ UNCHANGED statVars

\* the nested walkFuncRecursive has returned to the loop of the enclosing one
ReturnToZip ==
  /\ pc = "run" /\ returning /\ stack # <<>>
  /\ Top.kind = "zip"
  /\ LET out == ZipLoopOnNested(<<>>, retErr) IN
     IF out.next = "continue"
       THEN /\ stack' = Advance /\ returning' = FALSE /\ retErr' = Nil
            /\ handles' = handles
       ELSE /\ stack' = Pop /\ returning' = TRUE /\ retErr' = out.err
            /\ handles' = Release(handles, Top.held)
  /\ UNCHANGED <<pc, log, fault, events, result, walkRoot, decoded>>
  /\ UNCHANGED statVars

\* the outermost call has returned: filepath.Walk returns
Finish ==
  /\ pc = "run" /\ returning /\ stack = <<>>
  /\ pc' = "done"
  /\ result' = TopResult(retErr)
  /\ returning' = FALSE /\ retErr' = Nil
  /\ UNCHANGED <<stack, log, fault, events, walkRoot, handles, decoded>>
  /\ UNCHANGED statVars

\* a step of Stat with outcome out, met with fault k at node
StatTakes(out, node, k) ==
  /\ fault' = IF k = "ok" THEN fault ELSE [fault EXCEPT ![node] = k]
  /\ events' = events + Cost(k, Nil)
  /\ handles' = Release(handles \cup out.opened, out.closed)
  /\ decoded' = decoded \o [i \in 1..Len(out.dec) |-> [id |-> out.dec[i], at |-> 0]]
  /\ stat' = [stat EXCEPT !.zf = out.zf, !.rest = out.rest,
                          !.tried = @ \o out.tried, !.info = out.info,
                          !.err = out.err, !.deferred = @ \cup out.deferred]
  /\ pc' = IF out.next = "recurse" THEN "statRecursive" ELSE "statReturn"
  /\ UNCHANGED walkVars
  /\ UNCHANGED opn

\* Stat(path), up to its return or its call of statRecursive
StatStart ==
  /\ pc = "stat"
  /\ \E fz \in {FirstZipOf(stat.arg)} :
     \E k \in (IF fz.err = Nil /\ NodeAt(fz.id).kind = "file"
                 THEN FaultKinds(fz.id) ELSE {"ok"}) :
       /\ events + Cost(k, Nil) <= MaxEvents
       /\ \E out \in {StatBegin(stat.arg, k)} : StatTakes(out, fz.id, k)

\* one call of statRecursive, up to its return or its call of itself
StatStep ==
  /\ pc = "statRecursive"
  /\ \E op \in {StatOpens(stat.zf, stat.rest)} :
     \E e \in (IF op = {} THEN {stat.zf} ELSE op) :
       \E k \in (IF op = {} THEN {"ok"} ELSE FaultKinds(e)) :
         /\ events + Cost(k, Nil) <= MaxEvents
         /\ \E out \in {StatRecursive(stat.zf, stat.rest, k)} : StatTakes(out, e, k)

\* Stat returns: the deferred firstZip.Close() runs
StatEnd ==
  /\ pc = "statReturn"
  /\ pc' = "statDone"
  /\ handles' = Release(handles, stat.deferred)
  /\ UNCHANGED <<fault, events, decoded, stat, opn>>
  /\ UNCHANGED walkVars

\* a step of Open's descent with outcome out, met with fault k at node
OpenTakes(out, node, k) ==
  /\ fault' = IF k = "ok" THEN fault ELSE [fault EXCEPT ![node] = k]
  /\ events' = events + Cost(k, Nil)
  /\ decoded' = decoded
  /\ IF out.next = "fail"
       THEN LET cl == CloseAll(opn.chain \o out.acquired, {}) IN
            /\ opn' = [opn EXCEPT !.chain = @ \o out.acquired, !.err = out.err,
                                   !.closed = cl.closed]
            /\ handles' = {}
            /\ pc' = "openFailed"
       ELSE /\ opn' = [opn EXCEPT !.chain = @ \o out.acquired, !.zf = out.zf,
                                   !.rest = out.rest]
            /\ handles' = handles \cup { out.acquired[i] : i \in 1..Len(out.acquired) }
            /\ pc' = IF out.next = "descend" THEN "openDescend" ELSE "opened"
  /\ UNCHANGED walkVars
  /\ UNCHANGED stat

\* Open(path), up to its return or its first step into an archive
OpenStart ==
  /\ pc = "open"
  /\ \E n \in {OpenFirst(opn.arg)} :
     \E k \in (IF n.err = Nil /\ NodeAt(n.id).kind = "file"
                 THEN FaultKinds(n.id) ELSE {"ok"}) :
       /\ CrossesAt(opn.arg) \/ k \notin DecodeFaults
       /\ events + Cost(k, Nil) <= MaxEvents
       /\ \E out \in {OpenBegin(opn.arg, k)} : OpenTakes(out, n.id, k)

\* one step of Open's descent: the next segment is looked up in the archive
OpenStep ==
  /\ pc = "openDescend"
  /\ \E op \in {OpenFinds(opn.zf, opn.rest)} :
     \E e \in (IF op = {} THEN {opn.zf} ELSE op) :
       \E k \in (IF op = {} THEN {"ok"}
                  ELSE IF ZipLoc(opn.rest) = -1
                    THEN FaultKinds(e) \cap ({"ok"} \cup OpenFaults)
                  ELSE FaultKinds(e)) :
         /\ events + Cost(k, Nil) <= MaxEvents
         /\ \E out \in {OpenDescend(opn.zf, opn.rest, k)} : OpenTakes(out, e, k)

\* Close() of the handle Open returned; the closers of failing fail
Close ==
  /\ pc = "opened"
  /\ \E failing \in SUBSET (1..Len(opn.chain)) :
       /\ events + Cardinality(failing) <= MaxEvents
       /\ LET cl == CloseAll(opn.chain, failing) IN
          /\ opn' = [opn EXCEPT !.closed = cl.closed, !.closeErr = cl.err,
                                 !.failing = failing, !.closes = 1]
          /\ handles' = handles \ { cl.closed[i] : i \in 1..Len(cl.closed) }
          /\ events' = events + Cardinality(failing)
  /\ pc' = "closed"
  /\ UNCHANGED <<fault, decoded, stat>>
  /\ UNCHANGED walkVars

\* Close() once more: there is nothing left to close
CloseAgain ==
  /\ pc = "closed"
  /\ pc' = "closedTwice"
  /\ opn' = [opn EXCEPT !.closes = 2]
  /\ UNCHANGED <<fault, events, handles, decoded, stat>>
  /\ UNCHANGED walkVars

Next ==
  \/ OpenStart
  \/ OpenStep
  \/ Close
  \/ CloseAgain
  \/ StatStart
  \/ StatStep
  \/ StatEnd
  \/ Start
  \/ DirStep
  \/ DirDone
  \/ ReturnToDir
  \/ ZipStep
  \/ ZipDone
  \/ ReturnToZip
  \/ Finish

Spec == Init /\ [][Next]_vars

\* Walk is called on the tree whose archive stores names with ".." segments
InitEscape == InitWalk(BoxId) \/ InitStat \/ InitOpen

SpecEscape == InitEscape /\ [][Next]_vars

\* Walk is called on either tree
InitEither == Init \/ InitWalk(BoxId)

\* The program runs: the call that has begun takes its next step as long as
\* it has one (the code is sequential, and the visitor returns).
SpecFair == InitEither /\ [][Next]_vars /\ WF_vars(Next)

(***************************************************************************)
(* What the walk is expected to show, stated over the tree alone           *)
(***************************************************************************)
RECURSIVE PreorderFrom(_)
RECURSIVE PreorderKids(_, _)
PreorderKids(id, i) ==
  IF i > Len(NodeAt(id).children) THEN <<>>
  ELSE PreorderFrom(Append(id, i)) \o PreorderKids(id, i + 1)

\* every node under id, parents before children, children in listed order
PreorderFrom(id) == <<id>> \o PreorderKids(id, 1)

PreorderAll == PreorderFrom(<<>>)

\* the pre-order listing without the nodes of `gone` and without everything
\* below a node of `gone` or of `closed`
PreorderWithout(gone, closed) ==
  SelectSeq(PreorderAll,
            LAMBDA id : /\ id \notin gone
                        /\ ~\E b \in gone \cup closed : IsStrictPrefix(b, id))

RECURSIVE SlashPath(_)
\* the address of a node: the names from the root, joined by "/"
SlashPath(id) ==
  IF id = <<>> THEN RootPath
  ELSE SlashPath(Parent(id)) \o <<Slash>> \o StripSlashes(NodeAt(id).name)

RECURSIVE RealArchiveOf(_)
\* the nearest enclosing real file of an archive entry
RealArchiveOf(id) == IF IsReal(id) THEN id ELSE RealArchiveOf(Parent(id))

RECURSIVE Diverge(_, _, _)
\* the first position at which two node positions differ, 0 when one of them
\* is the other or lies under the other
Diverge(x, y, d) ==
  IF d > Len(x) \/ d > Len(y) THEN 0
  ELSE IF x[d] # y[d] THEN d
  ELSE Diverge(x, y, d + 1)

Done == pc = "done"

LogIds == [i \in 1..Len(log) |-> log[i].id]

Visited(id) == \E i \in 1..Len(log) : log[i].id = id

IndexOf(id) == CHOOSE i \in 1..Len(log) : log[i].id = id

AllNil == \A i \in 1..Len(log) : log[i].ret = Nil

NoFault == \A id \in NodeIds : fault[id] = "ok"

Faulted(kinds) == {id \in NodeIds : fault[id] \in kinds}

\* invocation i is walkFuncRecursive's visit of an archive node
ArchiveVisit(i) ==
  /\ log[i].err = Nil
  /\ ~log[i].info.isDir
  /\ IsZipName(log[i].path)

\* a real file or an archive entry whose name has the archive extension
NamedAsArchive(id) == NodeAt(id).kind # "dir" /\ IsZipName(NodeAt(id).name)

SkippedArchives ==
  {log[i].id : i \in {j \in 1..Len(log) : ArchiveVisit(j) /\ log[j].ret = SkipZip}}

(***************************************************************************)
(* Claims                                                                  *)
(***************************************************************************)

\* C1: when the visitor always returns nil and nothing fails, the visitor is
\* invoked exactly once for every node of the tree, in pre-order, and for
\* nothing else, each under its own address, no address twice, and Walk
\* returns nil.
C1_WalkVisitsEveryNodeOnce ==
  (Done /\ AllNil /\ NoFault) =>
    /\ LogIds = PreorderAll
    /\ \A i \in 1..Len(log) : log[i].path = SlashPath(log[i].id)
    /\ \A i, j \in 1..Len(log) : i # j => log[i].path # log[j].path
    /\ result = Nil

C1_Witness ==
  /\ Done /\ AllNil /\ NoFault
  /\ Len(log) = Cardinality(NodeIds)
  /\ Visited(<<2, 3, 2, 1>>)

\* C2 as claimed: once the visitor returned an error of its own, it is never
\* invoked again, the frames return, and Walk returns that very error.
C2_AbortReturnsThatError ==
  /\ \A i \in 1..Len(log) : log[i].ret = UserErr => i = Len(log)
  /\ (Len(log) > 0 /\ log[Len(log)].ret = UserErr) =>
       /\ Done \/ returning
       /\ Done => result = UserErr

\* C2 as amended: once the visitor returned an error of its own, it is never
\* invoked again, every frame returns, and Walk returns a non-nil error: that
\* very error when the invocation was not walkFuncRecursive's or its loop's (a
\* real directory, a real file not named as an archive, a node reported with
\* an err argument), and otherwise a new error whose text ends with the text
\* of the visitor's error.
C2_AbortReturnsError ==
  /\ \A i \in 1..Len(log) : log[i].ret = UserErr => i = Len(log)
  /\ (Len(log) > 0 /\ log[Len(log)].ret = UserErr) =>
       /\ Done \/ returning
       /\ Done =>
            /\ result # Nil
            /\ result[Len(result)] = UserErr[1]
            /\ (IsReal(log[Len(log)].id) /\ ~ArchiveVisit(Len(log))) => result = UserErr
            /\ (IsEntry(log[Len(log)].id) \/ ArchiveVisit(Len(log))) => Len(result) > 1

C2_Witness ==
  /\ Done
  /\ Len(log) > 0
  /\ log[Len(log)].ret = UserErr
  /\ log[Len(log)].id = <<2, 3, 2, 1>>
  /\ Len(result) > 1

C4_BadEntryOnlySkipsItself ==
  (Done /\ AllNil /\ \A id \in NodeIds : fault[id] \in {"ok"} \cup OpenFaults \cup ReadFaults) =>
    /\ LogIds = PreorderWithout(Faulted(OpenFaults \cup ReadFaults), {})
    /\ result = Nil

AnomalyMet(id) == fault[id] # "ok"

\* C6 as claimed: every anomaly the walker meets is surfaced as an invocation
\* of the visitor for that node with a non-nil err argument.
C6_EveryAnomalyReachesVisitor ==
  \A id \in NodeIds :
    AnomalyMet(id) => \E i \in 1..Len(log) : log[i].id = id /\ log[i].err # Nil

\* C7 as claimed: SkipDir returned by the visitor, for whatever node, never
\* becomes an error result of Walk.
C7_SkipDirNeverAnError ==
  (Done /\ NoFault /\ \A i \in 1..Len(log) : log[i].ret \in {Nil, SkipDir}) =>
    result = Nil

\* C8: within each archive the entries are visited in stored order: of two
\* entries of one archive, the earlier one and everything under it is visited
\* before the later one and everything under it, at every depth.
C8_StoredOrder ==
  \A i, j \in 1..Len(log) :
    LET x == log[i].id
        y == log[j].id
        d == Diverge(x, y, 1)
    IN ( /\ d > 0
         /\ x[d] < y[d]
         /\ NodeAt(SubSeq(x, 1, d - 1)).kind # "dir" ) => i < j

\* b.txt is stored before a.txt and is visited before it; so is what is
\* inside dir1.ZIP and in.zip
C8_Witness ==
  /\ Done
  /\ Visited(<<2, 1>>) /\ Visited(<<2, 2, 2>>) /\ Visited(<<2, 3, 2, 1>>) /\ Visited(<<2, 4>>)
  /\ IndexOf(<<2, 1>>) < IndexOf(<<2, 2, 2>>)
  /\ IndexOf(<<2, 2, 2>>) < IndexOf(<<2, 3, 2, 1>>)
  /\ IndexOf(<<2, 3, 2, 1>>) < IndexOf(<<2, 4>>)

\* C9: every archive entry is presented with the modification time of the
\* nearest enclosing real archive file, not the time stored with the entry,
\* and with the entry's own (base) name and size.
C9_VirtualModTime ==
  \A i \in 1..Len(log) :
    IsEntry(log[i].id) =>
      /\ log[i].info.mtime = NodeAt(RealArchiveOf(log[i].id)).mtime
      /\ log[i].info.name = Base(NodeAt(log[i].id).name)
      /\ log[i].info.size = NodeAt(log[i].id).size

C9_Witness ==
  \E i \in 1..Len(log) :
    /\ log[i].id = <<2, 3, 2, 1>>
    /\ log[i].info.mtime = F_a_zip.mtime
    /\ log[i].info.mtime # E_y_txt.mtime
    /\ log[i].info.name = <<"y", ".", "t", "x", "t">>
    /\ log[i].info.size = E_y_txt.size

\* C10: the stream passed with a file node that is not named as an archive
\* yields that node's own bytes from the start: a real file's bytes, an
\* entry's decompressed bytes, never those of the enclosing archive or of
\* another entry.
C10_StreamIsNodesOwnBytes ==
  \A i \in 1..Len(log) :
    ( /\ log[i].err = Nil
      /\ ~log[i].info.isDir
      /\ ~IsZipName(NodeAt(log[i].id).name) ) =>
        log[i].stream = [open |-> TRUE, of |-> log[i].id, pos |-> 0]

C10_Witness ==
  /\ \E i \in 1..Len(log) :
       log[i].id = <<1>> /\ log[i].stream.open /\ log[i].stream.of = <<1>>
  /\ \E i \in 1..Len(log) :
       log[i].id = <<2, 3, 2, 1>> /\ log[i].stream.open /\ log[i].stream.of = <<2, 3, 2, 1>>

(***************************************************************************)
(* What Stat is expected to return, stated over the tree alone             *)
(***************************************************************************)
StatDone == pc = "statDone"

RECURSIVE Address(_)
\* the address of a node: the names from the root of its tree, joined by "/"
Address(id) ==
  IF id \in {<<>>, BoxId} THEN NodeAt(id).name
  ELSE Address(Parent(id)) \o <<Slash>> \o StripSlashes(NodeAt(id).name)

Addresses == { Address(id) : id \in AllIds }

\* the path names no node: one of its segments does not exist
SegmentMissing(arg) == Clean(arg) \notin Addresses

\* no call that Stat made has failed for a reason of the environment
StatNoFault == \A id \in AllIds : fault[id] = "ok"

\* the path has a segment that ends in ".zip", in any case, and is not the last
CrossesArchive(arg) ==
  LET segs == Split(Clean(arg)) IN
  \E i \in 1..(Len(segs) - 1) : IsZipName(segs[i])

\* the first such segment names no real file
OuterUnopenable(arg) ==
  LET fz == FirstZipOf(arg) IN fz.err # Nil \/ NodeAt(fz.id).kind = "dir"

\* C11 (as claimed): Stat of a path with a missing segment fails with a
\* not-found error and returns no metadata, wherever the missing segment is.
C11_MissingSegmentIsNotFound ==
  (StatDone /\ SegmentMissing(stat.arg) /\ StatNoFault) =>
    (IsNotExist(stat.err) /\ ~stat.info.valid)

\* C11 (amended): Stat of a path with a missing segment returns an error and
\* no metadata; without faults the error is os.ErrNotExist when an archive
\* was opened and an entry is missing, the file system's error when the path
\* crosses no archive, and the bare "error opening zip file" error, which is
\* not a not-found error, when the outermost archive cannot be opened.
C11_MissingSegmentFails ==
  (StatDone /\ SegmentMissing(stat.arg)) =>
    /\ ~stat.info.valid
    /\ stat.err # Nil
    /\ StatNoFault =>
         IF ~CrossesArchive(stat.arg) THEN stat.err \in {ErrNoEnt, ErrNotDir}
         ELSE IF OuterUnopenable(stat.arg)
           THEN stat.err = <<"error opening zip file">> /\ ~IsNotExist(stat.err)
         ELSE stat.err = ErrNotExist

\* a segment is missing in an archive nested in an archive
C11_Witness ==
  /\ StatDone
  /\ SegmentMissing(stat.arg)
  /\ Len(decoded) >= 2
  /\ stat.err = ErrNotExist
  /\ ~stat.info.valid

RECURSIVE ExactAddress(_)
\* the names from the root of the tree as they are stored, joined by "/"
ExactAddress(id) ==
  IF id \in {<<>>, BoxId} THEN NodeAt(id).name
  ELSE ExactAddress(Parent(id)) \o <<Slash>> \o NodeAt(id).name

ExactAddresses == { ExactAddress(id) : id \in AllIds }

\* C12: without faults, Stat of a path whose segments are the stored names,
\* letter for letter, of an entry and of the archives around it returns nil
\* and the name, size and directory bit of that entry, at any depth; a path
\* that differs from such names only in letter case gets an error.
C12_StatFindsExactNames ==
  /\ \A id \in AllIds :
       (StatDone /\ StatNoFault /\ IsEntry(id)
          /\ Clean(stat.arg) = ExactAddress(id)) =>
         /\ stat.err = Nil
         /\ stat.info.valid
         /\ stat.info.name = Base(NodeAt(id).name)
         /\ stat.info.size = NodeAt(id).size
         /\ stat.info.isDir = HasTrailingSlash(NodeAt(id).name)
  /\ (StatDone /\ Clean(stat.arg) \notin ExactAddresses
         /\ \E id \in AllIds : ToLower(Clean(stat.arg)) = ToLower(ExactAddress(id))) =>
       (stat.err # Nil /\ ~stat.info.valid)

\* an entry found three archives deep
C12_Witness ==
  /\ StatDone
  /\ StatNoFault
  /\ Len(decoded) = 3
  /\ stat.err = Nil
  /\ stat.info.valid
  /\ \E id \in AllIds : IsEntry(id) /\ Clean(stat.arg) = ExactAddress(id)

DecodedIds == [i \in 1..Len(decoded) |-> decoded[i].id]

RECURSIVE ArchivesAbove(_)
\* the archives a node lies in, outermost first
ArchivesAbove(id) ==
  IF id \in {<<>>, BoxId} THEN <<>>
  ELSE LET up == Parent(id) IN
    IF NodeAt(up).kind = "dir" THEN ArchivesAbove(up)
    ELSE Append(ArchivesAbove(up), up)

\* C13: if no segment but the last ends in ".zip" (in any letter case), Stat
\* returns what os.Stat returns for the cleaned path and opens and decodes
\* nothing; if one does, Stat opens it as an archive and not as a directory;
\* and without faults the archives decoded for an entry are the archives it
\* lies in and nothing else, so a last segment ending in ".zip" is looked up
\* and not decoded.
C13_BoundaryIsDotZipSlash ==
  /\ (StatDone /\ ~CrossesArchive(stat.arg)) =>
       /\ decoded = <<>>
       /\ stat.tried = <<>>
       /\ stat.deferred = {}
       /\ stat.info = OsStat(Clean(stat.arg)).info
       /\ stat.err = OsStat(Clean(stat.arg)).err
  /\ (StatDone /\ CrossesArchive(stat.arg)) =>
       \/ decoded # <<>>
       \/ stat.err = <<"error opening zip file">>
  /\ \A id \in AllIds :
       (StatDone /\ StatNoFault /\ IsEntry(id)
          /\ Clean(stat.arg) = ExactAddress(id)) =>
         (stat.err = Nil /\ DecodedIds = ArchivesAbove(id))

\* Stat of an entry that is an archive itself: found, and not decoded
C13_Witness ==
  /\ StatDone
  /\ stat.err = Nil
  /\ stat.info.valid
  /\ \E id \in AllIds :
       /\ IsEntry(id)
       /\ IsZipName(NodeAt(id).name)
       /\ Clean(stat.arg) = ExactAddress(id)
       /\ \A i \in 1..Len(decoded) : decoded[i].id # id

\* C14: when Stat meets a segment that exists and does not open, read or
\* decode as an archive (a real file, a real directory or an entry), it
\* returns an error and no metadata; the entry at fault is the last one it
\* compared and nothing but the archives around it was decoded.
C14_UndecodableSegmentFails ==
  /\ \A id \in AllIds :
       (StatDone /\ fault[id] # "ok") =>
         /\ stat.err # Nil
         /\ ~stat.info.valid
         /\ IF IsEntry(id)
              THEN stat.tried # <<>> /\ stat.tried[Len(stat.tried)] = id
              ELSE stat.tried = <<>>
         /\ \A i \in 1..Len(decoded) : IsPrefix(decoded[i].id, id)
  /\ (StatDone /\ CrossesArchive(stat.arg) /\ FirstZipOf(stat.arg).err = Nil
         /\ NodeAt(FirstZipOf(stat.arg).id).kind = "dir") =>
       (stat.err # Nil /\ ~stat.info.valid /\ stat.tried = <<>> /\ decoded = <<>>)

\* an entry nested in an archive is found and does not decode
C14_Witness ==
  /\ StatDone
  /\ stat.err # Nil
  /\ \E id \in AllIds :
       /\ IsEntry(id)
       /\ fault[id] \in DecodeFaults
       /\ stat.tried[Len(stat.tried)] = id
       /\ Len(decoded) >= 2

\* C15: without faults, Stat of the address of a directory entry (an entry
\* stored under a name ending in "/") returns nil and that entry's metadata,
\* with the directory bit set.
C15_StatFindsDirectoryEntry ==
  \A id \in AllIds :
    (StatDone /\ StatNoFault /\ IsEntry(id)
       /\ HasTrailingSlash(NodeAt(id).name)
       /\ Clean(stat.arg) = Address(id)) =>
      /\ stat.err = Nil
      /\ stat.info.valid
      /\ stat.info.isDir
      /\ stat.info.name = Base(NodeAt(id).name)

\* C16: the modification time of the metadata Stat returns for an entry is
\* the modification time of the real archive file the entry lies in.
C16_StatModTimeIsArchiveTime ==
  \A id \in AllIds :
    (StatDone /\ stat.err = Nil /\ IsEntry(id)
       /\ Clean(stat.arg) = ExactAddress(id)) =>
      stat.info.mtime = NodeAt(RealArchiveOf(id)).mtime

(***************************************************************************)
(* Handles                                                                 *)
(***************************************************************************)
\* the handle through which an archive that is being iterated is read
HandleOf(id) == IF IsReal(id) THEN FileHandle(id) ELSE EntryHandle(id)

\* the handles of the calls of walkFuncRecursive that have not returned
ActiveHandles ==
  { HandleOf(stack[i].node) : i \in { j \in 1..Len(stack) : stack[j].kind = "zip" } }

\* C17: a handle is open only while the call that opened it has not
\* returned: during Walk the open handles belong to the archives being
\* iterated, during Stat the only open handle is the outermost archive's
\* reader, and once Walk or Stat has returned, with or without an error,
\* nothing is open.
C17_HandlesReleased ==
  /\ pc \in {"start", "stat", "done", "statDone"} => handles = {}
  /\ pc = "run" => handles \subseteq ActiveHandles
  /\ pc \in {"statRecursive", "statReturn"} =>
       (handles \subseteq stat.deferred /\ Cardinality(stat.deferred) <= 1)

\* Walk has returned an error from inside a nested archive
C17_Witness ==
  /\ Done
  /\ result # Nil
  /\ \E i \in 1..Len(decoded) : IsEntry(decoded[i].id)
  /\ handles = {}

(***************************************************************************)
(* Paths                                                                   *)
(***************************************************************************)
\* path p is path pre or lies under it
HasPathPrefix(pre, p) ==
  \/ p = pre
  \/ Len(p) > Len(pre) /\ SubSeq(p, 1, Len(pre) + 1) = Append(pre, Slash)

\* C18: every path the visitor gets is the root argument of Walk or lies
\* under it, and the path of an entry lies under the path the visitor got
\* for the archive the entry is stored in, whatever the stored name is.
C18_PathsUnderRootAndArchive ==
  \A i \in 1..Len(log) :
    /\ HasPathPrefix(NodeAt(walkRoot).name, log[i].path)
    /\ IsEntry(log[i].id) =>
         \E j \in 1..(i - 1) :
           /\ log[j].id = Parent(log[i].id)
           /\ HasPathPrefix(log[j].path, log[i].path)

(***************************************************************************)
(* The handle of Open                                                      *)
(***************************************************************************)
Reverse(q) == [i \in 1..Len(q) |-> q[Len(q) + 1 - i]]

\* the greatest element of a non-empty set of numbers
Greatest(S) == CHOOSE m \in S : \A n \in S : n <= m

\* C19: once Close has returned, everything the descent acquired has been
\* closed once, last acquired first, also when closers failed; the error
\* Close returned is that of the first closer that failed, nil if none did;
\* nothing is open; and a second Close leaves all of this as it was.
C19_CloseReleasesChain ==
  pc \in {"closed", "closedTwice"} =>
    /\ opn.closed = Reverse(opn.chain)
    /\ handles = {}
    /\ opn.closeErr =
         IF opn.failing = {} THEN Nil
         ELSE CloseError(opn.chain[Greatest(opn.failing)])

\* a handle three archives deep, closed twice, with two closers failing
C19_Witness ==
  /\ pc = "closedTwice"
  /\ Len(opn.chain) >= 4
  /\ Cardinality(opn.failing) >= 2
  /\ opn.closed = Reverse(opn.chain)

(***************************************************************************)
(* Order of the walk through archives                                      *)
(***************************************************************************)
Walking == pc \in {"start", "run", "done"}

\* node s follows, among the children of one parent, the archive that node a
\* is nested in
FollowsArchiveOf(s, a) ==
  /\ Len(s) >= 1
  /\ Len(a) > Len(s)
  /\ Parent(s) = SubSeq(a, 1, Len(s) - 1)
  /\ a[Len(s)] < s[Len(s)]
  /\ NodeAt(SubSeq(a, 1, Len(s))).kind # "dir"

\* C20: an entry is visited only after the archive it is stored in; an
\* archive is decoded only after its own visit, which returned nil, and
\* before any visit of its entries; and whatever is nested in an archive, at
\* any depth, is visited before every node that follows the archive among
\* its siblings.
C20_PreorderThroughArchives ==
  Walking =>
    /\ \A i \in 1..Len(log) :
         IsEntry(log[i].id) =>
           \E j \in 1..(i - 1) : log[j].id = Parent(log[i].id)
    /\ \A d \in 1..Len(decoded) :
         /\ \E j \in 1..decoded[d].at :
              log[j].id = decoded[d].id /\ log[j].ret = Nil
         /\ \A i \in 1..Len(log) :
              Parent(log[i].id) = decoded[d].id => i > decoded[d].at
    /\ \A i \in 1..Len(log), j \in 1..Len(log) :
         FollowsArchiveOf(log[j].id, log[i].id) => i < j

\* an entry two archives deep was visited, and after it an entry that
\* follows the outer of the two archives
C20_Witness ==
  /\ Done
  /\ Len(decoded) >= 3
  /\ \E i \in 1..Len(log), j \in 1..Len(log) :
       /\ i < j
       /\ Len(log[i].id) >= Len(log[j].id) + 2
       /\ IsEntry(log[j].id)
       /\ FollowsArchiveOf(log[j].id, log[i].id)

(***************************************************************************)
(* The stream argument                                                     *)
(***************************************************************************)
\* invocation i presents a directory: a real one or a directory entry
DirectoryVisit(i) == log[i].info.valid /\ log[i].info.isDir

\* C21: the visitor gets no stream with a directory node, a real directory
\* or a directory entry of an archive, and gets a stream with every file
\* node it is invoked for without an error.
C21_NoStreamForDirectories ==
  \A i \in 1..Len(log) :
    /\ DirectoryVisit(i) => log[i].stream = NoStream
    /\ (log[i].err = Nil /\ ~DirectoryVisit(i)) => log[i].stream.open

(***************************************************************************)
(* Real nodes that cannot be reached                                       *)
(***************************************************************************)
\* os.Lstat, the listing of a directory or os.Open failed
AccessFaults == {"lstat", "readdir", "open"}

VisitsOf(id) == { i \in 1..Len(log) : log[i].id = id }

\* C22: a real node that cannot be stat-ed, listed or opened is presented
\* once, without a stream and with that error as err; it is not decoded and
\* nothing under it is visited.  When the visitor returns nil for such nodes
\* and nothing else happens, every other node is visited and Walk returns
\* nil; when the visitor returns the error it was given, it is not invoked
\* again and Walk returns that error.
C22_UnreachableNodeReported ==
  Walking =>
    /\ \A id \in NodeIds :
         (IsReal(id) /\ fault[id] \in AccessFaults) =>
           /\ Cardinality(VisitsOf(id)) = 1
           /\ \A i \in VisitsOf(id) :
                /\ log[i].stream = NoStream
                /\ log[i].err = ErrArg(fault[id])
                /\ log[i].err # Nil
           /\ \A d \in 1..Len(decoded) : decoded[d].id # id
           /\ \A j \in 1..Len(log) : ~IsStrictPrefix(id, log[j].id)
    /\ (Done /\ AllNil /\ \A id \in NodeIds : fault[id] \in {"ok"} \cup AccessFaults) =>
         /\ LogIds = PreorderWithout({}, Faulted(AccessFaults))
         /\ result = Nil
    /\ \A i \in 1..Len(log) :
         (log[i].err # Nil /\ log[i].ret = log[i].err) =>
           /\ i = Len(log)
           /\ Done \/ returning
           /\ Done => result = log[i].err

\* root/a.zip could not be opened and the visitor returned nil; root/d.zip
\* could not be listed and the visitor returned the error, which Walk returned
C22_Witness ==
  /\ Done
  /\ fault[<<2>>] = "open" /\ fault[<<3>>] = "readdir"
  /\ \E i \in VisitsOf(<<2>>) : log[i].ret = Nil /\ log[i].err = ErrOpenFile
  /\ \E i \in VisitsOf(<<3>>) : log[i].ret = ErrReadDir /\ log[i].err = ErrReadDir
  /\ decoded = <<>>
  /\ result = ErrReadDir

(***************************************************************************)
(* Walk and Stat on one path                                               *)
(***************************************************************************)
\* the name, size and directory bit of node id
Described(id) ==
  LET n == NodeAt(id) IN
  IF IsReal(id)
    THEN [name |-> n.name, size |-> n.size, isDir |-> n.kind = "dir"]
    ELSE [name |-> Base(n.name), size |-> n.size, isDir |-> HasTrailingSlash(n.name)]

Describes(info, id) ==
  /\ info.valid
  /\ [name |-> info.name, size |-> info.size, isDir |-> info.isDir] = Described(id)

\* C23: Walk presents every node, when it presents it without an error,
\* under its address and with its name, size and directory bit; and without
\* faults Stat of the address of a node (a real node, an archive, an entry
\* or a directory entry at any depth, a node under a real directory named
\* like an archive) returns nil and the same name, size and directory bit.
C23_StatAgreesWithWalk ==
  /\ Walking =>
       \A i \in 1..Len(log) :
         log[i].err = Nil =>
           /\ log[i].path = Address(log[i].id)
           /\ Describes(log[i].info, log[i].id)
  /\ \A id \in NodeIds :
       (StatDone /\ StatNoFault /\ Clean(stat.arg) = Address(id)) =>
         /\ stat.err = Nil
         /\ Describes(stat.info, id)

(***************************************************************************)
(* SkipZip returned for a node that is not an archive node                 *)
(***************************************************************************)
\* C24: when the visitor returns SkipZip for an invocation that is not
\* walkFuncRecursive's visit of an archive node (a real directory, a real
\* file not named as an archive, an entry not named as an archive, a node
\* reported with an error), the visitor is not invoked again, every frame
\* returns, and Walk returns a non-nil error whose text ends in "SkipZip".
C24_SkipZipElsewhereAborts ==
  Walking =>
    \A i \in 1..Len(log) :
      (log[i].ret = SkipZip /\ ~ArchiveVisit(i)) =>
        /\ i = Len(log)
        /\ Done \/ returning
        /\ Done => (result # Nil /\ result[Len(result)] = SkipZip[1])

\* SkipZip returned for x.txt, an entry of in.zip inside a.zip: the entries
\* and files after it were not visited and Walk returned an error
C24_Witness ==
  /\ Done
  /\ Len(log) > 0
  /\ log[Len(log)].id = <<2, 3, 1>>
  /\ log[Len(log)].ret = SkipZip
  /\ ~Visited(<<2, 3, 2>>) /\ ~Visited(<<2, 4>>) /\ ~Visited(<<4>>)
  /\ Len(result) > 1

(***************************************************************************)
(* Termination and the size of the walk                                    *)
(***************************************************************************)
\* the nodes of the tree Walk was called on
WalkRoots == {<<>>, BoxId}

IdsWalkedFrom == [root \in WalkRoots |-> IdsUnder(NodeAt(root), root)]

WalkedIds == IdsWalkedFrom[walkRoot]

\* the archives of that tree: real files and entries with children to decode
ArchiveIdsFrom == [root \in WalkRoots |-> { id \in IdsWalkedFrom[root] : NamedAsArchive(id) }]

ArchiveIds == ArchiveIdsFrom[walkRoot]

\* how deep archives are nested in the tree: the most archives that lie one
\* in another, the innermost counted
ArchiveNestingFrom ==
  [root \in WalkRoots |->
    Greatest({0} \cup { Len(ArchivesAbove(id)) + 1 : id \in ArchiveIdsFrom[root] })]

ArchiveNesting == ArchiveNestingFrom[walkRoot]

\* how deep directories are nested in the tree
DirNestingFrom ==
  [root \in WalkRoots |->
    Greatest({0} \cup { Len(id) - Len(root) + 1 :
                           id \in { d \in IdsWalkedFrom[root] : NodeAt(d).kind = "dir" } })]

DirNesting == DirNestingFrom[walkRoot]

\* the calls of walkFuncRecursive, and of filepath.walk on a directory, that
\* have not returned
FramesOf(kind) == { j \in 1..Len(stack) : stack[j].kind = kind }

WalkBounded ==
  Walking =>
    /\ Cardinality(FramesOf("zip")) <= ArchiveNesting
    /\ Cardinality(FramesOf("dir")) <= DirNesting
    /\ \A j \in FramesOf("zip") :
         Cardinality({ i \in FramesOf("zip") : i <= j }) = Len(ArchivesAbove(stack[j].node)) + 1
    /\ \A id \in AllIds : Cardinality(VisitsOf(id)) <= 1
    /\ \A i \in 1..Len(log) : log[i].id \in WalkedIds
    /\ Len(log) <= Cardinality(WalkedIds)

\* C25: whatever the visitor returns and whatever fails, Walk returns; while
\* it runs, the calls of walkFuncRecursive that have not returned are never
\* more than the archives nested one in another in the tree (the call for an
\* archive is as deep as the archive lies), and the visitor is invoked at
\* most once for a node, so never more often than the tree has nodes.
C25_WalkTerminates == []WalkBounded /\ (Walking ~> Done)

\* the walk is as deep as the tree is: three calls of walkFuncRecursive are
\* active, after the visitor returned SkipZip for an archive on the way
C25_Witness ==
  /\ pc = "run"
  /\ Cardinality(FramesOf("zip")) = ArchiveNesting
  /\ ArchiveNesting = Len(ArchivesAbove(<<2, 3, 2, 1>>))
  /\ \E i \in 1..Len(log) : log[i].ret = SkipZip
====
